---- MODULE Spec2Model ----
(***************************************************************************)
(* API_Testing_and_Automation.ipynb: six wrapper functions around          *)
(* requests.get/post/put/delete against the JSONPlaceholder "posts"        *)
(* resource, five assertion-based test functions, the pytest subprocess    *)
(* driver run_tests and the cell that calls the tests one after another.   *)
(***************************************************************************)
EXTENDS Integers, Sequences, FiniteSets, TLC

VARIABLES
    BASE_URL,      \* the module-level global of the setup cell
    sent,          \* number of HTTP requests handed to the requests library
    lastRequest,   \* the most recent of them
    lastReply,     \* what the network / server answered to the latest call
    calls,         \* number of invocations of the six functions
    invoked,       \* the functions invoked so far
    lastCall,      \* the latest invocation: function and argument
    lastResult,    \* what the latest invocation returned
    nones,         \* number of invocations that returned None
    logged,        \* number of logging.error entries
    lastLog,       \* the latest of them
    pc,            \* position in the notebook run (automation cell, driver cell)
    proc,          \* how the pytest subprocess of run_tests ended
    console,       \* lines printed by the notebook process
    report,        \* the tests run by the driver cell, each with its verdict
    raised         \* the exception that ended the run, if any

clientVars == <<BASE_URL, sent, lastRequest, lastReply, calls, invoked,
                lastCall, lastResult, nones, logged, lastLog>>
driverVars == <<pc, proc, console, report, raised>>
vars == <<BASE_URL, sent, lastRequest, lastReply, calls, invoked, lastCall,
          lastResult, nones, logged, lastLog, pc, proc, console, report, raised>>

----------------------------------------------------------------------------
(* Bounds of the model.                                                    *)

\* Invocations a free caller of the six functions makes.
MaxCalls == 2
\* Post identifiers a free caller passes: 1..MaxPostId.
MaxPostId == 2

PostIds == 1..MaxPostId

----------------------------------------------------------------------------
(* The outside world: what one requests.<method>(...) call can end in.     *)

\* requests.RequestException subclasses raised when no response arrives.
NetworkErrors == {"ConnectionError", "Timeout"}

\* Status codes a server can answer with: 2xx, 3xx without a Location
\* header (which requests hands back as the final response), 4xx, 5xx.
StatusCodes == {200, 201, 204, 304, 404, 500}

\* A parsed JSON object: the keys present and their values.
Obj(keys, id, title, body) ==
    [json |-> "object", keys |-> keys, id |-> id, title |-> title, body |-> body]

\* Response bodies: not JSON, a JSON list of n posts, a JSON object.
Bodies ==
    { [json |-> "invalid"],
      [json |-> "list", len |-> 0],
      [json |-> "list", len |-> 100],
      Obj({}, 0, "", ""),
      Obj({"id", "userId", "title", "body"}, 1, "sunt aut facere", "quia et suscipit"),
      Obj({"id", "userId", "title", "body"}, 101, "foo", "bar"),
      Obj({"id", "userId", "title", "body"}, 1, "foo", "bar updated") }

Replies ==
    [kind : {"raise"}, exc : NetworkErrors]
    \cup [kind : {"response"}, status_code : StatusCodes, body : Bodies]

\* The answers tried against a free caller: the client functions never look
\* into a body, so one body of each shape is enough there.
CallerBodies ==
    { [json |-> "invalid"],
      [json |-> "list", len |-> 100],
      Obj({"id", "userId", "title", "body"}, 1, "foo", "bar updated") }

CallerReplies ==
    [kind : {"raise"}, exc : NetworkErrors]
    \cup [kind : {"response"}, status_code : StatusCodes, body : CallerBodies]

----------------------------------------------------------------------------
(* Resource client.                                                        *)

None == [kind |-> "None"]

\* An invocation that ends in an exception instead of returning.
Raise(exc) == [kind |-> "Raise", exc |-> exc]

\* The classes an `except requests.RequestException` clause catches.
RequestException == {"ConnectionError", "Timeout", "HTTPError"}

NoJson == [json |-> "absent"]

\* The requests.Response object built from the server's answer.
Response(reply) ==
    [kind |-> "Response", status_code |-> reply.status_code, body |-> reply.body]

\* Variant of raise_for_status that lets server errors (5xx) through.
raise_for_status_4xx_only(status_code) ==
    400 <= status_code /\ status_code < 500

\* Response.raise_for_status(): TRUE when it raises HTTPError.
raise_for_status(status_code) ==
    \/ (400 <= status_code /\ status_code < 500)
    \/ (500 <= status_code /\ status_code < 600)

\* Variant of try_request that repeats a failed request once before giving up.
try_request_retry(request, reply, message) ==
    LET e == IF reply.kind = "raise" THEN reply.exc
             ELSE IF raise_for_status(reply.status_code) THEN "HTTPError"
             ELSE "none"
    IN IF e = "none"
       THEN [sent |-> <<request>>, ret |-> Response(reply), log |-> <<>>]
       ELSE [sent |-> <<request, request>>, ret |-> None,
             log |-> <<message \o ": " \o e>>]

\* Variant of try_request whose try block lacks `return response`.
try_request_no_return(request, reply, message) ==
    LET e == IF reply.kind = "raise" THEN reply.exc
             ELSE IF raise_for_status(reply.status_code) THEN "HTTPError"
             ELSE "none"
    IN IF e = "none"
       THEN [sent |-> <<request>>, ret |-> None, log |-> <<>>]
       ELSE [sent |-> <<request>>, ret |-> None, log |-> <<message \o ": " \o e>>]

\* The try / except requests.RequestException block shared by the six
\* functions: one request; a RequestException (from the transport or from
\* raise_for_status) is logged and None returned, else the response returned.
try_request(request, reply, message) ==
    LET e == IF reply.kind = "raise" THEN reply.exc
             ELSE IF raise_for_status(reply.status_code) THEN "HTTPError"
             ELSE "none"
    IN IF e = "none"
       THEN [sent |-> <<request>>, ret |-> Response(reply), log |-> <<>>]
       ELSE IF e \in RequestException
       THEN [sent |-> <<request>>, ret |-> None, log |-> <<message \o ": " \o e>>]
       ELSE [sent |-> <<request>>, ret |-> Raise(e), log |-> <<>>]

get_posts(reply) ==
    try_request([method |-> "GET", url |-> BASE_URL \o "/posts", json |-> NoJson],
                reply, "Failed to retrieve posts")

get_post_by_id(post_id, reply) ==
    try_request([method |-> "GET",
                 url |-> BASE_URL \o "/posts/" \o ToString(post_id),
                 json |-> NoJson],
                reply, "Failed to retrieve post with ID " \o ToString(post_id))

get_post_comments(post_id, reply) ==
    try_request([method |-> "GET",
                 url |-> BASE_URL \o "/posts/" \o ToString(post_id) \o "/comments",
                 json |-> NoJson],
                reply,
                "Failed to retrieve comments for post ID " \o ToString(post_id))

post_post(reply) ==
    LET data == [json |-> "object", title |-> "foo", body |-> "bar", userId |-> 1]
    IN try_request([method |-> "POST", url |-> BASE_URL \o "/posts", json |-> data],
                   reply, "Failed to create post")

\* Variant of put_post that creates instead of updating: POST to /posts.
put_post_as_post(post_id, reply) ==
    LET data == [json |-> "object", title |-> "foo", body |-> "bar updated",
                 userId |-> 1]
    IN try_request([method |-> "POST", url |-> BASE_URL \o "/posts", json |-> data],
                   reply, "Failed to update post with ID " \o ToString(post_id))

put_post(post_id, reply) ==
    LET data == [json |-> "object", title |-> "foo", body |-> "bar updated",
                 userId |-> 1]
    IN try_request([method |-> "PUT",
                    url |-> BASE_URL \o "/posts/" \o ToString(post_id),
                    json |-> data],
                   reply, "Failed to update post with ID " \o ToString(post_id))

\* Variant of delete_post whose except clause returns None without logging.
delete_post_silent(post_id, reply) ==
    [try_request([method |-> "DELETE",
                  url |-> BASE_URL \o "/posts/" \o ToString(post_id),
                  json |-> NoJson],
                 reply, "Failed to delete post with ID " \o ToString(post_id))
     EXCEPT !.log = <<>>]

delete_post(post_id, reply) ==
    try_request([method |-> "DELETE",
                 url |-> BASE_URL \o "/posts/" \o ToString(post_id),
                 json |-> NoJson],
                reply, "Failed to delete post with ID " \o ToString(post_id))

\* One invocation of a client function takes effect on the process and the
\* network: its requests go out, its log entries are written, it returns.
Invoke(call, reply, effect) ==
    /\ sent' = sent + Len(effect.sent)
    /\ lastRequest' = IF effect.sent = <<>> THEN lastRequest
                      ELSE effect.sent[Len(effect.sent)]
    /\ lastReply' = reply
    /\ calls' = calls + 1
    /\ invoked' = invoked \cup {call.op}
    /\ lastCall' = call
    /\ lastResult' = effect.ret
    /\ nones' = nones + (IF effect.ret = None THEN 1 ELSE 0)
    /\ logged' = logged + Len(effect.log)
    /\ lastLog' = IF effect.log = <<>> THEN lastLog
                  ELSE effect.log[Len(effect.log)]
    /\ BASE_URL' = BASE_URL

----------------------------------------------------------------------------
(* A free caller: any function, any post id, any answer of the network.    *)

Call_get_posts ==
    /\ calls < MaxCalls
    /\ \E reply \in CallerReplies :
          Invoke([op |-> "get_posts"], reply, get_posts(reply))
    /\ UNCHANGED driverVars

Call_get_post_by_id ==
    /\ calls < MaxCalls
    /\ \E post_id \in PostIds, reply \in CallerReplies :
          Invoke([op |-> "get_post_by_id", post_id |-> post_id], reply,
                 get_post_by_id(post_id, reply))
    /\ UNCHANGED driverVars

Call_get_post_comments ==
    /\ calls < MaxCalls
    /\ \E post_id \in PostIds, reply \in CallerReplies :
          Invoke([op |-> "get_post_comments", post_id |-> post_id], reply,
                 get_post_comments(post_id, reply))
    /\ UNCHANGED driverVars

Call_post_post ==
    /\ calls < MaxCalls
    /\ \E reply \in CallerReplies :
          Invoke([op |-> "post_post"], reply, post_post(reply))
    /\ UNCHANGED driverVars

Call_put_post ==
    /\ calls < MaxCalls
    /\ \E post_id \in PostIds, reply \in CallerReplies :
          Invoke([op |-> "put_post", post_id |-> post_id], reply,
                 put_post(post_id, reply))
    /\ UNCHANGED driverVars

Call_delete_post ==
    /\ calls < MaxCalls
    /\ \E post_id \in PostIds, reply \in CallerReplies :
          Invoke([op |-> "delete_post", post_id |-> post_id], reply,
                 delete_post(post_id, reply))
    /\ UNCHANGED driverVars

----------------------------------------------------------------------------
(* Test cases.  A verdict is NoException when the test returns, else the   *)
(* exception that leaves it, with the notebook line it is raised at.       *)

NoException == [exc |-> "none"]

Exception(exc, line) == [exc |-> exc, line |-> line]

\* `assert response is not None`
assert_is_not_None(response, line) ==
    IF response # None THEN NoException ELSE Exception("AssertionError", line)

\* `assert response.status_code == code`; None has no attribute status_code.
assert_status_code(response, code, line) ==
    IF response = None THEN Exception("AttributeError", line)
    ELSE IF response.status_code = code THEN NoException
    ELSE Exception("AssertionError", line)

\* response.json(): TRUE when the body does not decode.
json_raises(response) == response.body.json = "invalid"

\* `assert isinstance(response.json(), list)`
assert_json_is_list(response, line) ==
    IF response = None THEN Exception("AttributeError", line)
    ELSE IF json_raises(response) THEN Exception("JSONDecodeError", line)
    ELSE IF response.body.json = "list" THEN NoException
    ELSE Exception("AssertionError", line)

\* `assert len(response.json()) > 0`
assert_json_len(response, line) ==
    IF response = None THEN Exception("AttributeError", line)
    ELSE IF json_raises(response) THEN Exception("JSONDecodeError", line)
    ELSE IF response.body.json = "list"
         THEN IF response.body.len > 0 THEN NoException
              ELSE Exception("AssertionError", line)
    ELSE IF Cardinality(response.body.keys) > 0 THEN NoException
    ELSE Exception("AssertionError", line)

\* `assert response.json().get(key) == value`; a list has no method get.
assert_json_get(response, key, value, line) ==
    IF response = None THEN Exception("AttributeError", line)
    ELSE IF json_raises(response) THEN Exception("JSONDecodeError", line)
    ELSE IF response.body.json = "list" THEN Exception("AttributeError", line)
    ELSE IF key \in response.body.keys /\ response.body[key] = value
         THEN NoException
    ELSE Exception("AssertionError", line)

\* Statements run one after another: the first exception leaves the function.
first_exception(steps) ==
    IF \A i \in 1..Len(steps) : steps[i] = NoException THEN NoException
    ELSE steps[CHOOSE i \in 1..Len(steps) :
                  /\ steps[i] # NoException
                  /\ \A j \in 1..(i - 1) : steps[j] = NoException]

\* An exception out of the client function itself leaves the test at the call.
after_call(response, line, steps) ==
    IF response.kind = "Raise" THEN Exception(response.exc, line)
    ELSE first_exception(steps)

test_get_posts_body(response) ==
    after_call(response, 168,
        << assert_is_not_None(response, 169),
           assert_status_code(response, 200, 170),
           assert_json_is_list(response, 171),
           assert_json_len(response, 172) >>)

test_get_post_by_id_body(response) ==
    after_call(response, 176,
        << assert_is_not_None(response, 177),
           assert_status_code(response, 200, 178),
           assert_json_get(response, "id", 1, 179) >>)

test_post_post_body(response) ==
    after_call(response, 183,
        << assert_is_not_None(response, 184),
           assert_status_code(response, 201, 185),
           assert_json_get(response, "title", "foo", 186) >>)

\* Variant of test_put_post without its `assert response is not None`.
test_put_post_body_unguarded(response) ==
    after_call(response, 190,
        << assert_status_code(response, 200, 192),
           assert_json_get(response, "body", "bar updated", 193) >>)

test_put_post_body(response) ==
    after_call(response, 190,
        << assert_is_not_None(response, 191),
           assert_status_code(response, 200, 192),
           assert_json_get(response, "body", "bar updated", 193) >>)

\* test_delete_post up to its second client call.
test_delete_post_body(delete_response) ==
    after_call(delete_response, 197,
        << assert_is_not_None(delete_response, 198),
           assert_status_code(delete_response, 200, 199) >>)

\* What the `if get_response is not None:` block prints before it ends.
test_delete_post_prints(get_response) ==
    IF get_response.kind # "Response" THEN <<>>
    ELSE <<"Status code after deletion attempt: "
               \o ToString(get_response.status_code)>>
         \o (IF json_raises(get_response) THEN <<>>
             ELSE <<"Response content: " \o get_response.body.json>>)

\* Variant of test_delete_post that also asserts the fetch answered 200.
test_delete_post_rest_status(get_response) ==
    after_call(get_response, 201,
        << IF get_response # None /\ json_raises(get_response)
           THEN Exception("JSONDecodeError", 204) ELSE NoException,
           assert_is_not_None(get_response, 206),
           assert_status_code(get_response, 200, 207) >>)

\* test_delete_post from the return of get_post_by_id(1) on.
test_delete_post_rest(get_response) ==
    after_call(get_response, 201,
        << IF get_response # None /\ json_raises(get_response)
           THEN Exception("JSONDecodeError", 204) ELSE NoException,
           assert_is_not_None(get_response, 206) >>)

----------------------------------------------------------------------------
(* Automation code: pytest in a subprocess.                                *)

\* How subprocess.run(['pytest', ...], capture_output=True) can end: the
\* executable cannot be started, or it exits with pytest's exit codes.
PytestEndings ==
    {[kind |-> "FileNotFoundError"]}
    \cup [kind : {"exit"}, returncode : {0, 1, 2, 5},
          stdout : {"no tests ran in 1.14s", "1 failed"},
          stderr : {"", "ERROR: usage"}]

\* Variant of run_tests whose except clause re-raises after printing.
run_tests_reraise(ending) ==
    IF ending.kind # "exit"
    THEN [printed |-> <<>>, raise |-> Exception(ending.kind, 248)]
    ELSE IF ending.returncode = 0
    THEN [printed |-> <<"Test Results:", ending.stdout>>, raise |-> NoException]
    ELSE [printed |-> <<"Tests failed:", "Standard Output:", ending.stdout,
                        "Standard Error:", ending.stderr>>,
          raise |-> Exception("CalledProcessError", 248)]

\* run_tests(): what it prints and the exception it lets out, if any.
run_tests(ending) ==
    IF ending.kind # "exit"
    THEN [printed |-> <<>>, raise |-> Exception(ending.kind, 248)]
    ELSE IF ending.returncode = 0
    THEN [printed |-> <<"Test Results:", ending.stdout>>, raise |-> NoException]
    ELSE [printed |-> <<"Tests failed:", "Standard Output:", ending.stdout,
                        "Standard Error:", ending.stderr>>,
          raise |-> NoException]

----------------------------------------------------------------------------
(* The notebook run: the automation cell, then the cell that calls the     *)
(* test functions directly.                                                *)

\* The calls of the last code cell, in textual order.
DriverCell ==
    << "test_get_posts", "test_get_post_by_id", "test_post_post",
       "test_put_post", "test_delete_post" >>

IndexOf(test) == CHOOSE i \in 1..Len(DriverCell) : DriverCell[i] = test

\* Variant of after_test for a cell that catches each test's exception and
\* goes on with the next call.
after_test_continue(test, verdict) ==
    IF IndexOf(test) < Len(DriverCell) THEN DriverCell[IndexOf(test) + 1]
    ELSE "done"

\* Where control goes when a test function ends with the given verdict.
after_test(test, verdict) ==
    IF verdict # NoException THEN "aborted"
    ELSE IF IndexOf(test) < Len(DriverCell) THEN DriverCell[IndexOf(test) + 1]
    ELSE "done"

\* What the cell prints once a test function has ended.
cell_prints(test, verdict) ==
    IF after_test(test, verdict) = "done" THEN <<"All tests executed.">> ELSE <<>>

\* A test function ends: the cell goes on, or the exception ends the run.
EndTest(test, verdict, printed) ==
    /\ report' = Append(report, [test |-> test, verdict |-> verdict])
    /\ raised' = verdict
    /\ pc' = after_test(test, verdict)
    /\ console' = console \o printed \o cell_prints(test, verdict)

RunTestsCell ==
    /\ pc = "run_tests"
    /\ \E ending \in PytestEndings :
          LET r == run_tests(ending)
          IN /\ proc' = ending
             /\ console' = console \o r.printed
             /\ raised' = r.raise
             /\ pc' = IF r.raise = NoException THEN DriverCell[1] ELSE "aborted"
    /\ UNCHANGED <<report, clientVars>>

test_get_posts ==
    /\ pc = "test_get_posts"
    /\ \E reply \in Replies :
          LET effect == get_posts(reply)
          IN /\ Invoke([op |-> "get_posts"], reply, effect)
             /\ EndTest("test_get_posts", test_get_posts_body(effect.ret),
                        <<"Running test_get_posts">>)
    /\ UNCHANGED proc

test_get_post_by_id ==
    /\ pc = "test_get_post_by_id"
    /\ \E reply \in Replies :
          LET effect == get_post_by_id(1, reply)
          IN /\ Invoke([op |-> "get_post_by_id", post_id |-> 1], reply, effect)
             /\ EndTest("test_get_post_by_id",
                        test_get_post_by_id_body(effect.ret),
                        <<"Running test_get_post_by_id">>)
    /\ UNCHANGED proc

test_post_post ==
    /\ pc = "test_post_post"
    /\ \E reply \in Replies :
          LET effect == post_post(reply)
          IN /\ Invoke([op |-> "post_post"], reply, effect)
             /\ EndTest("test_post_post", test_post_post_body(effect.ret),
                        <<"Running test_post_post">>)
    /\ UNCHANGED proc

test_put_post ==
    /\ pc = "test_put_post"
    /\ \E reply \in Replies :
          LET effect == put_post(1, reply)
          IN /\ Invoke([op |-> "put_post", post_id |-> 1], reply, effect)
             /\ EndTest("test_put_post", test_put_post_body(effect.ret),
                        <<"Running test_put_post">>)
    /\ UNCHANGED proc

\* test_delete_post, first half: delete_post(1) and the two assertions on it.
test_delete_post ==
    /\ pc = "test_delete_post"
    /\ \E reply \in Replies :
          LET effect == delete_post(1, reply)
              verdict == test_delete_post_body(effect.ret)
          IN /\ Invoke([op |-> "delete_post", post_id |-> 1], reply, effect)
             /\ IF verdict = NoException
                THEN /\ pc' = "test_delete_post:get_post_by_id"
                     /\ console' = Append(console, "Running test_delete_post")
                     /\ UNCHANGED <<report, raised>>
                ELSE EndTest("test_delete_post", verdict,
                             <<"Running test_delete_post">>)
    /\ UNCHANGED proc

\* test_delete_post, second half: get_post_by_id(1), the prints, the assertion.
test_delete_post_get ==
    /\ pc = "test_delete_post:get_post_by_id"
    /\ \E reply \in Replies :
          LET effect == get_post_by_id(1, reply)
          IN /\ Invoke([op |-> "get_post_by_id", post_id |-> 1], reply, effect)
             /\ EndTest("test_delete_post", test_delete_post_rest(effect.ret),
                        test_delete_post_prints(effect.ret))
    /\ UNCHANGED proc

----------------------------------------------------------------------------

Init ==
    /\ BASE_URL = "https://jsonplaceholder.typicode.com"
    /\ sent = 0
    /\ lastRequest = [method |-> "none"]
    /\ lastReply = [kind |-> "none"]
    /\ calls = 0
    /\ invoked = {}
    /\ lastCall = [op |-> "none"]
    /\ lastResult = [kind |-> "unset"]
    /\ nones = 0
    /\ logged = 0
    /\ lastLog = ""
    /\ pc = "run_tests"
    /\ proc = [kind |-> "none"]
    /\ console = <<>>
    /\ report = <<>>
    /\ raised = NoException

ClientNext ==
    \/ Call_get_posts
    \/ Call_get_post_by_id
    \/ Call_get_post_comments
    \/ Call_post_post
    \/ Call_put_post
    \/ Call_delete_post

ClientSpec == Init /\ [][ClientNext]_vars

Next ==
    \/ RunTestsCell
    \/ test_get_posts
    \/ test_get_post_by_id
    \/ test_post_post
    \/ test_put_post
    \/ test_delete_post
    \/ test_delete_post_get

Spec == Init /\ [][Next]_vars

----------------------------------------------------------------------------
(* Properties of the resource client, checked under ClientSpec.            *)

\* The latest answer was a failure of the transport.
NetworkFailure == lastReply.kind = "raise"

\* The latest answer was a response with the given range of status codes.
StatusIn(lo, hi) ==
    /\ lastReply.kind = "response"
    /\ lo <= lastReply.status_code
    /\ lastReply.status_code <= hi

\* C1 as stated: whenever the HTTP call of an operation ended in a network
\* failure or in a response whose status is not 2xx, the operation returned
\* None and did not raise.
C1_NonSuccessStatusYieldsNone ==
    calls > 0 =>
        /\ lastResult.kind # "Raise"
        /\ (NetworkFailure \/ ~StatusIn(200, 299)) => lastResult = None

\* C1 amended: whenever the HTTP call of an operation ended in a network
\* failure or in a response with a 4xx or 5xx status, the operation returned
\* None and did not raise, the same None for a timeout as for a 404; a
\* response of any other status, 3xx included, is not turned into None.
C1_ErrorStatusYieldsNone ==
    calls > 0 =>
        /\ lastResult.kind # "Raise"
        /\ (NetworkFailure \/ StatusIn(400, 599)) => lastResult = None
        /\ StatusIn(300, 399) => lastResult # None

\* A timeout right after another failed invocation: both returned None.
C1_Witness ==
    /\ calls = 2
    /\ nones = 2
    /\ lastReply.kind = "raise"
    /\ lastReply.exc = "Timeout"
    /\ lastResult = None

\* C2: every invocation that returns None writes exactly one error entry,
\* every other invocation writes none, an invocation against an unreachable
\* network is one of the former, and so the number of error entries always
\* equals the number of invocations that returned None.
C2_OneLogEntryPerNone ==
    /\ [](logged = nones)
    /\ [][ /\ logged' - logged = IF lastResult' = None THEN 1 ELSE 0
           /\ lastReply'.kind = "raise" =>
                 (lastResult' = None /\ logged' = logged + 1) ]_vars

\* A successful invocation after a failed one: one entry, one None.
C2_Witness ==
    /\ calls = 2
    /\ nones = 1
    /\ logged = 1
    /\ lastResult.kind = "Response"

\* C3: every invocation hands exactly one request to the network, whatever
\* the answer, and the request is the one of this invocation: the count of
\* requests always equals the count of invocations, and each step sends one.
C3_OneRequestPerInvocation ==
    /\ [](sent = calls)
    /\ [][ /\ sent' = sent + 1
           /\ calls' = calls + 1 ]_vars

\* The same function invoked twice, the second time failing: two requests.
C3_Witness ==
    /\ calls = 2
    /\ invoked = {"get_post_by_id"}
    /\ sent = 2
    /\ lastResult = None

\* C4: when the HTTP call produced a response that raise_for_status accepts,
\* the operation returned a non-null result carrying the status code and the
\* body of that response.
C4_SuccessReturnsEnvelope ==
    (calls > 0 /\ lastReply.kind = "response" /\ ~StatusIn(400, 599)) =>
        /\ lastResult # None
        /\ lastResult.kind = "Response"
        /\ lastResult.status_code = lastReply.status_code
        /\ lastResult.body = lastReply.body

\* An update answered 200 with the updated post.
C4_Witness ==
    /\ lastCall.op = "put_post"
    /\ lastReply.kind = "response"
    /\ lastReply.status_code = 200
    /\ lastReply.body.json = "object"
    /\ lastResult.kind = "Response"

\* The route table of the wire protocol: method, path and body per operation.
RouteTable(call) ==
    CASE call.op = "get_posts" ->
            [method |-> "GET", path |-> "/posts", json |-> [json |-> "absent"]]
      [] call.op = "get_post_by_id" ->
            [method |-> "GET", path |-> "/posts/" \o ToString(call.post_id),
             json |-> [json |-> "absent"]]
      [] call.op = "get_post_comments" ->
            [method |-> "GET",
             path |-> "/posts/" \o ToString(call.post_id) \o "/comments",
             json |-> [json |-> "absent"]]
      [] call.op = "post_post" ->
            [method |-> "POST", path |-> "/posts",
             json |-> [json |-> "object", title |-> "foo", body |-> "bar",
                       userId |-> 1]]
      [] call.op = "put_post" ->
            [method |-> "PUT", path |-> "/posts/" \o ToString(call.post_id),
             json |-> [json |-> "object", title |-> "foo",
                       body |-> "bar updated", userId |-> 1]]
      [] call.op = "delete_post" ->
            [method |-> "DELETE", path |-> "/posts/" \o ToString(call.post_id),
             json |-> [json |-> "absent"]]

\* C5: the request of every invocation has the method, the path (with the
\* post id given) and the body of its row of the route table, under the one
\* base URL, which stays what the setup cell set it to.
C5_RequestsFollowRouteTable ==
    /\ BASE_URL = "https://jsonplaceholder.typicode.com"
    /\ calls > 0 =>
          /\ lastRequest.method = RouteTable(lastCall).method
          /\ lastRequest.url = "https://jsonplaceholder.typicode.com"
                                   \o RouteTable(lastCall).path
          /\ lastRequest.json = RouteTable(lastCall).json

\* An update of post 2 went out as PUT /posts/2.
C5_Witness ==
    /\ lastCall.op = "put_post"
    /\ lastCall.post_id = 2
    /\ lastRequest.method = "PUT"
    /\ lastRequest.url = "https://jsonplaceholder.typicode.com/posts/2"

----------------------------------------------------------------------------
(* Properties of the notebook run, checked under Spec.                     *)

LastReport == report[Len(report)]

AllPassed == \A i \in 1..Len(report) : report[i].verdict = NoException

\* C6: the driver cell runs the tests in textual order; once a test has
\* failed no later test runs (so none issues a request), and
\* "All tests executed." is printed exactly when all five tests passed.
C6_DriverStopsAtFirstFailure ==
    /\ Len(report) <= 5
    /\ \A i \in 1..Len(report) :
          report[i].test = << "test_get_posts", "test_get_post_by_id",
                              "test_post_post", "test_put_post",
                              "test_delete_post" >>[i]
    /\ \A i \in 1..(Len(report) - 1) : report[i].verdict = NoException
    /\ (report # <<>> /\ LastReport.verdict # NoException) =>
          (pc = "aborted" /\ raised = LastReport.verdict)
    /\ (\E i \in 1..Len(console) : console[i] = "All tests executed.")
          <=> (Len(report) = 5 /\ AllPassed)

\* The third test failed an assertion and the run stopped there.
C6_Witness ==
    /\ pc = "aborted"
    /\ Len(report) = 3
    /\ report[3].verdict.exc = "AssertionError"

\* C7: when the pytest process exits non-zero, run_tests prints
\* "Tests failed:" with the captured standard output and standard error and
\* returns without an exception, and the run goes on with the driver cell.
C7_RunTestsCatchesFailure ==
    (proc.kind = "exit" /\ proc.returncode # 0) =>
        /\ Len(console) >= 5
        /\ SubSeq(console, 1, 5) =
              << "Tests failed:", "Standard Output:", proc.stdout,
                 "Standard Error:", proc.stderr >>
        /\ pc # "run_tests"
        /\ report = <<>> => (raised = NoException /\ pc = "test_get_posts")
        /\ pc = "aborted" => report # <<>>

\* pytest collected no tests (exit code 5) and the first test is up next.
C7_Witness ==
    /\ proc.kind = "exit"
    /\ proc.returncode = 5
    /\ pc = "test_get_posts"
    /\ raised = NoException

\* C8 as stated: in a driver run in which every test passed, each of the
\* six client functions has been invoked.
C8_EveryOperationExercised ==
    (pc = "done" /\ Len(report) = 5 /\ AllPassed) =>
        invoked = {"get_posts", "get_post_by_id", "get_post_comments",
                   "post_post", "put_post", "delete_post"}

\* The client function a test has just called, while its result is the latest.
JustRan(test, op) ==
    /\ report # <<>>
    /\ LastReport.test = test
    /\ lastCall.op = op

\* C9: a test whose client call returned None fails with the AssertionError
\* of its non-null assertion (never by reading an attribute of None); a test
\* that passes had a non-null result with the expected status code (200 for
\* list, get, update; 201 for create) and the expected body (a non-empty
\* list; id 1; title "foo"; body "bar updated").
C9_NonNullCheckedFirst ==
    /\ \A t \in { <<"test_get_posts", "get_posts", 169>>,
                  <<"test_get_post_by_id", "get_post_by_id", 177>>,
                  <<"test_post_post", "post_post", 184>>,
                  <<"test_put_post", "put_post", 191>>,
                  <<"test_delete_post", "delete_post", 198>> } :
          (JustRan(t[1], t[2]) /\ lastResult = None) =>
              (LastReport.verdict = [exc |-> "AssertionError", line |-> t[3]]
               /\ pc = "aborted")
    /\ (JustRan("test_get_posts", "get_posts") /\ LastReport.verdict = NoException) =>
          /\ lastResult # None
          /\ lastResult.status_code = 200
          /\ lastResult.body.json = "list"
          /\ lastResult.body.len > 0
    /\ (JustRan("test_get_post_by_id", "get_post_by_id")
            /\ LastReport.verdict = NoException) =>
          /\ lastResult # None
          /\ lastResult.status_code = 200
          /\ lastResult.body.json = "object"
          /\ "id" \in lastResult.body.keys
          /\ lastResult.body.id = 1
    /\ (JustRan("test_post_post", "post_post") /\ LastReport.verdict = NoException) =>
          /\ lastResult # None
          /\ lastResult.status_code = 201
          /\ lastResult.body.json = "object"
          /\ "title" \in lastResult.body.keys
          /\ lastResult.body.title = "foo"
    /\ (JustRan("test_put_post", "put_post") /\ LastReport.verdict = NoException) =>
          /\ lastResult # None
          /\ lastResult.status_code = 200
          /\ lastResult.body.json = "object"
          /\ "body" \in lastResult.body.keys
          /\ lastResult.body.body = "bar updated"

\* The update came back None and test_put_post failed at line 191.
C9_Witness ==
    /\ JustRan("test_put_post", "put_post")
    /\ lastResult = None
    /\ LastReport.verdict = [exc |-> "AssertionError", line |-> 191]

\* test_delete_post has ended after its fetch of post 1.
FetchAfterDeleteDone ==
    /\ Len(report) = 5
    /\ lastCall.op = "get_post_by_id"

\* The fetch of post 1 is pending only after a delete that returned a
\* response with status 200, and the fetch itself does not raise.
FetchAfterDeleteIssued ==
    /\ pc = "test_delete_post:get_post_by_id" =>
          /\ lastCall = [op |-> "delete_post", post_id |-> 1]
          /\ lastResult.kind = "Response"
          /\ lastResult.status_code = 200
    /\ FetchAfterDeleteDone =>
          /\ lastCall.post_id = 1
          /\ lastResult.kind # "Raise"
          /\ lastReply.kind = "response" /\ lastReply.status_code = 404
                => lastResult = None

\* C10 as stated: the fetch follows only a delete answered 200, never
\* raises, and test_delete_post then passes exactly when the fetch result is
\* non-null.
C10_PassesIffFetchNonNull ==
    /\ FetchAfterDeleteIssued
    /\ FetchAfterDeleteDone =>
          (LastReport.verdict = NoException <=> lastResult # None)

\* C10 amended: the fetch follows only a delete answered 200, never raises,
\* and test_delete_post then passes exactly when the fetch result is non-null
\* and its body decodes as JSON (the body is printed before the final
\* assertion), whatever its status code.
C10_PassesIffFetchNonNullAndJson ==
    /\ FetchAfterDeleteIssued
    /\ FetchAfterDeleteDone =>
          (LastReport.verdict = NoException
              <=> (lastResult # None /\ lastResult.body.json # "invalid"))

\* The fetch after the delete was answered 201 and the test passed.
C10_Witness ==
    /\ FetchAfterDeleteDone
    /\ lastResult.kind = "Response"
    /\ lastResult.status_code = 201
    /\ LastReport.verdict = NoException
    /\ pc = "done"

====
